---- MODULE Spec2Model ----
(***************************************************************************)
(* Model of add_files_to_xcode.py: main() prints a banner, checks that     *)
(* each of two hard-coded relative paths exists under a hard-coded root,   *)
(* prints one line per checked path, returns 1 at the first missing path   *)
(* and otherwise prints a block of manual instructions and returns 0.      *)
(* The script is run as a process (sys.exit(main())); the model lets the   *)
(* process be started again against the same filesystem.                   *)
(*                                                                         *)
(* Paths are sequences of segments; an absolute path starts with "/".      *)
(* The filesystem maps every path the script could hand to stat() to the   *)
(* kind of entry found there.                                              *)
(***************************************************************************)
EXTENDS Integers, Sequences, FiniteSets, TLC

VARIABLES fs, fs0, pc, i, file_path, full_path, stdout, ret, exit_code,
          checked, run, history

vars == <<fs, fs0, pc, i, file_path, full_path, stdout, ret, exit_code,
          checked, run, history>>

\* Number of times the script is started against the same filesystem.
MaxRuns == 2

----------------------------------------------------------------------------
(* Constants of main() *)

ModelFile == <<"ios", "SmartCityGuide", "Models", "OverpassPOI.swift">>

ServiceFile == <<"ios", "SmartCityGuide", "Services", "OverpassAPIService.swift">>

files_to_add == <<ModelFile, ServiceFile>>

project_root == <<"/", "Users", "dengelma", "develop", "private", "smart-city-guide">>

----------------------------------------------------------------------------
(* The filesystem as seen by os.path *)

\* What stat() finds at a path: nothing, a regular file, a directory, or an
\* entry it may not look at (EACCES).
Kinds == {"absent", "file", "dir", "denied"}

isabs(p) == Len(p) > 0 /\ p[1] = "/"

\* os.path.join with the first component dropped: the relative path alone.
os_path_join_rel_only(a, b) == b

\* os.path.join(a, b): an absolute b replaces a, otherwise b is appended.
os_path_join(a, b) == IF isabs(b) THEN b ELSE a \o b

\* Every path the script can hand to the filesystem.
Paths == {project_root} \cup {files_to_add[k] : k \in 1..Len(files_to_add)}
           \cup {project_root \o files_to_add[k] : k \in 1..Len(files_to_add)}

\* os.path.isfile: true for a regular file only.
os_path_isfile(f, p) == f[p] = "file"

\* os.path.exists(p): os.stat(p) succeeds; any OSError gives False.
os_path_exists(f, p) == f[p] \in {"file", "dir"}

\* An existence test that opens the path for appending creates it.
fs_after_open_append(f, p) == [f EXCEPT ![p] = IF @ = "absent" THEN "file" ELSE @]

\* The filesystem after os.path.exists(p): stat() changes nothing.
fs_after_exists(f, p) == f

----------------------------------------------------------------------------
(* Output lines *)

BannerLine == [kind |-> "banner", path |-> <<>>]

ExistsLine(p) == [kind |-> "exists", path |-> p]

NotFoundLine(p) == [kind |-> "not_found", path |-> p]

InstructionsBlock == [kind |-> "instructions", path |-> <<>>]

\* sys.exit(v): None exits with 0, an integer with that integer.
sys_exit(v) == IF v = <<>> THEN <<0>> ELSE v

----------------------------------------------------------------------------
Init ==
    /\ fs \in [Paths -> Kinds]
    /\ fs0 = fs
    /\ pc = "banner"
    /\ i = 0
    /\ file_path = <<>>
    /\ full_path = <<>>
    /\ stdout = <<>>
    /\ ret = <<>>
    /\ exit_code = <<>>
    /\ checked = <<>>
    /\ run = 1
    /\ history = <<>>

\* line 15
Banner ==
    /\ pc = "banner"
    /\ stdout' = Append(stdout, BannerLine)
    /\ pc' = "for"
    /\ UNCHANGED <<fs, fs0, i, file_path, full_path, ret, exit_code, checked, run, history>>

\* line 17: the next element of the list
ForNext ==
    /\ pc = "for"
    /\ i < Len(files_to_add)
    /\ i' = i + 1
    /\ file_path' = files_to_add[i + 1]
    /\ pc' = "join"
    /\ UNCHANGED <<fs, fs0, full_path, stdout, ret, exit_code, checked, run, history>>

\* line 17: the list is exhausted
ForEnd ==
    /\ pc = "for"
    /\ i >= Len(files_to_add)
    /\ pc' = "instructions"
    /\ UNCHANGED <<fs, fs0, i, file_path, full_path, stdout, ret, exit_code, checked, run, history>>

\* line 18
Join ==
    /\ pc = "join"
    /\ full_path' = os_path_join(project_root, file_path)
    /\ pc' = "test"
    /\ UNCHANGED <<fs, fs0, i, file_path, stdout, ret, exit_code, checked, run, history>>

\* line 19
Test ==
    /\ pc = "test"
    /\ checked' = Append(checked, full_path)
    /\ fs' = fs_after_exists(fs, full_path)
    /\ pc' = IF os_path_exists(fs, full_path) THEN "print_exists" ELSE "print_missing"
    /\ UNCHANGED <<fs0, i, file_path, full_path, stdout, ret, exit_code, run, history>>

\* line 20 with the absolute path printed instead of the relative one
PrintExistsFull ==
    /\ pc = "print_exists"
    /\ stdout' = Append(stdout, ExistsLine(full_path))
    /\ pc' = "for"
    /\ UNCHANGED <<fs, fs0, i, file_path, full_path, ret, exit_code, checked, run, history>>

\* line 20
PrintExists ==
    /\ pc = "print_exists"
    /\ stdout' = Append(stdout, ExistsLine(file_path))
    /\ pc' = "for"
    /\ UNCHANGED <<fs, fs0, i, file_path, full_path, ret, exit_code, checked, run, history>>

\* line 22 without the return that follows it: the loop goes on
PrintMissingContinue ==
    /\ pc = "print_missing"
    /\ stdout' = Append(stdout, NotFoundLine(file_path))
    /\ pc' = "for"
    /\ UNCHANGED <<fs, fs0, i, file_path, full_path, ret, exit_code, checked, run, history>>

\* line 22
PrintMissing ==
    /\ pc = "print_missing"
    /\ stdout' = Append(stdout, NotFoundLine(file_path))
    /\ pc' = "return_fail"
    /\ UNCHANGED <<fs, fs0, i, file_path, full_path, ret, exit_code, checked, run, history>>

\* line 23 returning 0
ReturnFailZero ==
    /\ pc = "return_fail"
    /\ ret' = <<0>>
    /\ pc' = "exit"
    /\ UNCHANGED <<fs, fs0, i, file_path, full_path, stdout, exit_code, checked, run, history>>

\* line 23
ReturnFail ==
    /\ pc = "return_fail"
    /\ ret' = <<1>>
    /\ pc' = "exit"
    /\ UNCHANGED <<fs, fs0, i, file_path, full_path, stdout, exit_code, checked, run, history>>

\* lines 25-42 left out
SkipInstructions ==
    /\ pc = "instructions"
    /\ pc' = "return_ok"
    /\ UNCHANGED <<fs, fs0, i, file_path, full_path, stdout, ret, exit_code, checked, run, history>>

\* lines 25-42
PrintInstructions ==
    /\ pc = "instructions"
    /\ stdout' = Append(stdout, InstructionsBlock)
    /\ pc' = "return_ok"
    /\ UNCHANGED <<fs, fs0, i, file_path, full_path, ret, exit_code, checked, run, history>>

\* line 44
ReturnOk ==
    /\ pc = "return_ok"
    /\ ret' = <<0>>
    /\ pc' = "exit"
    /\ UNCHANGED <<fs, fs0, i, file_path, full_path, stdout, exit_code, checked, run, history>>

\* line 47: sys.exit(main())
Exit ==
    /\ pc = "exit"
    /\ exit_code' = sys_exit(ret)
    /\ pc' = "done"
    /\ UNCHANGED <<fs, fs0, i, file_path, full_path, stdout, ret, checked, run, history>>

\* The script is started again: a fresh process, the same filesystem.
NewRun ==
    /\ pc = "done"
    /\ run < MaxRuns
    /\ history' = Append(history, [out |-> stdout, code |-> exit_code])
    /\ run' = run + 1
    /\ pc' = "banner"
    /\ i' = 0
    /\ file_path' = <<>>
    /\ full_path' = <<>>
    /\ stdout' = <<>>
    /\ ret' = <<>>
    /\ exit_code' = <<>>
    /\ checked' = <<>>
    /\ UNCHANGED <<fs, fs0>>

\* One step of main() or of the interpreter's exit.
Step ==
    \/ Banner
    \/ ForNext
    \/ ForEnd
    \/ Join
    \/ Test
    \/ PrintExists
    \/ PrintMissing
    \/ ReturnFail
    \/ PrintInstructions
    \/ ReturnOk
    \/ Exit

Next == Step \/ NewRun

Spec == Init /\ [][Next]_vars

\* A started process runs to its end: execution is sequential and nothing blocks.
FairSpec == Spec /\ WF_vars(Step)

----------------------------------------------------------------------------
(* Vocabulary of the properties *)

\* The path under the root that a configured relative path stands for.
UnderRoot(p) == project_root \o p

\* A filesystem entry (file or directory) is found at the path.
Present(p) == fs[p] \in {"file", "dir"}

Emitted(line) == \E n \in 1..Len(stdout) : stdout[n] = line

EmittedKind(k) == \E n \in 1..Len(stdout) : stdout[n].kind = k

IsPerFile(line) == line.kind \in {"exists", "not_found"}

WasChecked(p) == \E n \in 1..Len(checked) : checked[n] = p

AllPresent == \A k \in 1..Len(files_to_add) : Present(UnderRoot(files_to_add[k]))

\* Output and exit code as a table over the existence of the two paths.
Outcome(a, b) ==
    IF ~a THEN [out |-> <<BannerLine, NotFoundLine(ModelFile)>>, code |-> <<1>>]
    ELSE IF ~b THEN [out |-> <<BannerLine, ExistsLine(ModelFile), NotFoundLine(ServiceFile)>>,
                     code |-> <<1>>]
    ELSE [out |-> <<BannerLine, ExistsLine(ModelFile), ExistsLine(ServiceFile),
                    InstructionsBlock>>,
          code |-> <<0>>]

----------------------------------------------------------------------------
\* C1: the exit code is 0 exactly when every configured path exists under the
\* root and 1 exactly when at least one is missing; a process never ends with
\* any other exit code.
C1_ExitCode ==
    /\ exit_code \in {<<>>, <<0>>, <<1>>}
    /\ pc = "done" =>
         /\ exit_code \in {<<0>>, <<1>>}
         /\ exit_code = <<0>> <=> AllPresent
         /\ exit_code = <<1>> <=> ~AllPresent

C1_Witness ==
    /\ pc = "done"
    /\ exit_code = <<1>>
    /\ Present(UnderRoot(ModelFile))
    /\ ~Present(UnderRoot(ServiceFile))

\* C2: when the first configured path is missing (whatever is at the second),
\* no line is ever printed for the second path, the second path is never
\* checked, no instructions are printed, and the finished run has printed
\* the banner and exactly one "not found" line, for the first path, and
\* ended in failure.
C2_FirstMissing ==
    ~Present(UnderRoot(ModelFile)) =>
        /\ \A n \in 1..Len(stdout) : stdout[n].path # ServiceFile
        /\ ~WasChecked(UnderRoot(ServiceFile))
        /\ ~WasChecked(ServiceFile)
        /\ ~EmittedKind("instructions")
        /\ Cardinality({n \in 1..Len(stdout) : stdout[n].kind = "not_found"}) <= 1
        /\ pc = "done" =>
             /\ stdout = <<BannerLine, NotFoundLine(ModelFile)>>
             /\ checked = <<UnderRoot(ModelFile)>>
             /\ exit_code = <<1>>

C2_Witness ==
    /\ pc = "done"
    /\ ~Present(UnderRoot(ModelFile))
    /\ Present(UnderRoot(ServiceFile))
    /\ Emitted(NotFoundLine(ModelFile))

\* C3: when both configured paths exist, no "not found" line is ever printed
\* and the finished run has printed the banner, the "exists" line of the first
\* path, the "exists" line of the second path and then the instructions, and
\* ended in success.
C3_AllPresent ==
    (Present(UnderRoot(ModelFile)) /\ Present(UnderRoot(ServiceFile))) =>
        /\ ~EmittedKind("not_found")
        /\ pc = "done" =>
             /\ stdout = <<BannerLine, ExistsLine(ModelFile), ExistsLine(ServiceFile),
                           InstructionsBlock>>
             /\ exit_code = <<0>>

C3_Witness ==
    /\ pc = "done"
    /\ Present(UnderRoot(ModelFile))
    /\ Present(UnderRoot(ServiceFile))
    /\ Emitted(InstructionsBlock)

\* C4: when the first configured path exists and the second is missing, no
\* instructions are ever printed and the finished run has printed the banner,
\* the "exists" line of the first path and then the "not found" line of the
\* second, and ended in failure.
C4_SecondMissing ==
    (Present(UnderRoot(ModelFile)) /\ ~Present(UnderRoot(ServiceFile))) =>
        /\ ~EmittedKind("instructions")
        /\ pc = "done" =>
             /\ stdout = <<BannerLine, ExistsLine(ModelFile), NotFoundLine(ServiceFile)>>
             /\ exit_code = <<1>>

C4_Witness ==
    /\ pc = "done"
    /\ fs[UnderRoot(ModelFile)] = "file"
    /\ fs[UnderRoot(ServiceFile)] = "absent"
    /\ Emitted(NotFoundLine(ServiceFile))
    /\ Emitted(ExistsLine(ModelFile))

\* C5 as stated: a checked configured path that does not exist, is a
\* directory, or may not be looked at is reported as "not found" and the run
\* ends in failure.
C5_DirectoryNotFound ==
    \A k \in 1..Len(files_to_add) :
        LET p == files_to_add[k] IN
        (/\ pc = "done"
         /\ WasChecked(UnderRoot(p))
         /\ fs[UnderRoot(p)] \in {"absent", "dir", "denied"})
        => /\ Emitted(NotFoundLine(p))
           /\ exit_code = <<1>>

\* C5 as amended: a checked configured path that does not exist or may not be
\* looked at is reported as "not found" and the run ends in failure; a checked
\* configured path that is a directory is reported as existing, as a regular
\* file is, and gets no "not found" line.
C5_MissingOrDenied ==
    \A k \in 1..Len(files_to_add) :
        LET p == files_to_add[k] IN
        (pc = "done" /\ WasChecked(UnderRoot(p))) =>
            /\ fs[UnderRoot(p)] \in {"absent", "denied"} =>
                 /\ Emitted(NotFoundLine(p))
                 /\ ~Emitted(ExistsLine(p))
                 /\ exit_code = <<1>>
            /\ fs[UnderRoot(p)] \in {"dir", "file"} =>
                 /\ Emitted(ExistsLine(p))
                 /\ ~Emitted(NotFoundLine(p))

C5_Witness ==
    /\ pc = "done"
    /\ fs[UnderRoot(ModelFile)] = "dir"
    /\ fs[UnderRoot(ServiceFile)] = "denied"
    /\ Emitted(ExistsLine(ModelFile))
    /\ Emitted(NotFoundLine(ServiceFile))

\* C6: in every reachable state the filesystem is what it was when the first
\* run started.
C6_NoSideEffects == fs = fs0

C6_Witness ==
    /\ pc = "done"
    /\ run = MaxRuns
    /\ Len(checked) = Len(files_to_add)
    /\ fs[UnderRoot(ServiceFile)] = "absent"
    /\ fs = fs0

\* C7: every finished run against the same filesystem has the same output and
\* the same exit code as every earlier run, and both are given by a table over
\* the existence of the two configured paths under the root.
C7_Idempotent ==
    /\ \A h1, h2 \in 1..Len(history) : history[h1] = history[h2]
    /\ pc = "done" =>
         /\ \A h \in 1..Len(history) :
                history[h] = [out |-> stdout, code |-> exit_code]
         /\ [out |-> stdout, code |-> exit_code]
              = Outcome(Present(UnderRoot(ModelFile)), Present(UnderRoot(ServiceFile)))

C7_Witness ==
    /\ pc = "done"
    /\ run >= 2
    /\ Len(history) >= 1
    /\ history[1] = [out |-> stdout, code |-> exit_code]
    /\ fs[UnderRoot(ModelFile)] = "absent"

\* C8: the n-th existence test is applied to the root joined with the n-th
\* configured path, never to the relative path or the root alone; the line
\* printed for a path names the relative path and says "exists" exactly when
\* an entry is found at the joined path.
C8_PathConstruction ==
    /\ Len(checked) <= Len(files_to_add)
    /\ \A n \in 1..Len(checked) :
         /\ checked[n] = UnderRoot(files_to_add[n])
         /\ checked[n] # files_to_add[n]
         /\ checked[n] # project_root
    /\ \A n \in 2..Len(stdout) :
         IsPerFile(stdout[n]) =>
           /\ n - 1 <= Len(files_to_add)
           /\ stdout[n].path = files_to_add[n - 1]
           /\ stdout[n].path # UnderRoot(files_to_add[n - 1])
           /\ stdout[n].kind = "exists" <=> Present(UnderRoot(files_to_add[n - 1]))

C8_Witness ==
    /\ pc = "done"
    /\ Present(UnderRoot(ModelFile))
    /\ ~Present(ModelFile)
    /\ ~Present(UnderRoot(ServiceFile))
    /\ Present(ServiceFile)
    /\ Present(project_root)
    /\ stdout = <<BannerLine, ExistsLine(ModelFile), NotFoundLine(ServiceFile)>>

\* The two control states of a run.
ControlState == IF pc = "done" THEN "done" ELSE "checking"

NoDuplicates(s) == \A m, n \in 1..Len(s) : s[m] = s[n] => m = n

C9_DoneInv ==
    /\ Len(checked) <= Len(files_to_add)
    /\ NoDuplicates(checked)
    /\ ControlState = "done" =>
         \/ /\ exit_code = <<0>>
            /\ Len(checked) = Len(files_to_add)
            /\ AllPresent
         \/ /\ exit_code = <<1>>
            /\ Len(checked) >= 1
            /\ ~Present(checked[Len(checked)])
            /\ stdout[Len(stdout)].kind = "not_found"

\* C9: a run starts in `checking`; every run reaches `done`, having checked no
\* path twice and no more paths than are configured; `done` is entered with
\* success after all paths were found or with failure after a missing one; a
\* run that is in `done` stays in `done`.
C9_StateMachine ==
    /\ ControlState = "checking"
    /\ []C9_DoneInv
    /\ \A r \in 1..MaxRuns : (run = r) ~> (run = r /\ ControlState = "done")
    /\ [][(ControlState = "done" /\ run' = run) => ControlState' = "done"]_vars

C9_Witness ==
    /\ pc = "done"
    /\ Len(checked) = Len(files_to_add)
    /\ exit_code = <<1>>

\* C10: the banner is the first line and is printed before any existence
\* check; the per-file lines name a prefix of the configured list in order; a
\* "not found" line is the last line printed; the instructions are printed
\* exactly when the run ends in success, as the last line, after an "exists"
\* line for every configured path.
C10_OutputShape ==
    /\ stdout # <<>> => stdout[1] = BannerLine
    /\ \A n \in 2..Len(stdout) : stdout[n].kind # "banner"
    /\ Len(checked) > 0 => stdout # <<>>
    /\ pc \notin {"banner"} => stdout # <<>>
    /\ LET perfile == SelectSeq(stdout, IsPerFile) IN
         /\ Len(perfile) <= Len(files_to_add)
         /\ \A k \in 1..Len(perfile) : perfile[k].path = files_to_add[k]
    /\ \A n \in 1..Len(stdout) : stdout[n].kind = "not_found" => n = Len(stdout)
    /\ \A n \in 1..Len(stdout) :
         stdout[n].kind = "instructions" =>
           /\ n = Len(stdout)
           /\ n = Len(files_to_add) + 2
           /\ \A k \in 1..Len(files_to_add) : stdout[k + 1] = ExistsLine(files_to_add[k])
    /\ pc = "done" => (EmittedKind("instructions") <=> exit_code = <<0>>)

C10_Witness ==
    /\ pc = "done"
    /\ exit_code = <<0>>
    /\ stdout[Len(stdout)] = InstructionsBlock
    /\ Len(stdout) = Len(files_to_add) + 2

====
